---- MODULE Spec2Model ----
(***************************************************************************)
(* Form_validation/script.js: class FormValidator.                         *)
(*                                                                         *)
(* A string is a sequence of one-character strings; null is the value NULL.*)
(* The DOM is the record dom (the value, checked set or file list of each  *)
(* named control), the Map this.errors is a function whose domain is its   *)
(* key set, the Map this.validators is the sequence of its keys in         *)
(* insertion order.                                                        *)
(***************************************************************************)
EXTENDS Integers, Sequences, FiniteSets, TLC

\* ------------------------------------------------------------ characters

Digits == {"0", "1", "2", "3", "4", "5", "6", "7", "8", "9"}

Lower == {"a", "b", "c", "d", "e", "f", "g", "h", "i", "j", "k", "l", "m",
          "n", "o", "p", "q", "r", "s", "t", "u", "v", "w", "x", "y", "z"}

Upper == {"A", "B", "C", "D", "E", "F", "G", "H", "I", "J", "K", "L", "M",
          "N", "O", "P", "Q", "R", "S", "T", "U", "V", "W", "X", "Y", "Z"}

\* \s of a regular expression, and the characters String.prototype.trim strips
Whitespace == {" ", "\t", "\n", "\r"}

\* \w of a regular expression
WordChars == Lower \cup Upper \cup Digits \cup {"_"}

DigitValue ==
    ("0" :> 0) @@ ("1" :> 1) @@ ("2" :> 2) @@ ("3" :> 3) @@ ("4" :> 4) @@
    ("5" :> 5) @@ ("6" :> 6) @@ ("7" :> 7) @@ ("8" :> 8) @@ ("9" :> 9)

NULL == "null"

\* ------------------------------------------------------------ strings

\* every character of s is in the class cls
AllIn(s, cls) == \A i \in 1..Len(s) : s[i] \in cls

\* some character of s is in the class cls
SomeIn(s, cls) == \E i \in 1..Len(s) : s[i] \in cls

\* String.prototype.trim
Trim(s) ==
    IF AllIn(s, Whitespace) THEN <<>>
    ELSE LET first == CHOOSE i \in 1..Len(s) :
                        /\ s[i] \notin Whitespace
                        /\ \A j \in 1..(i - 1) : s[j] \in Whitespace
             last  == CHOOSE i \in 1..Len(s) :
                        /\ s[i] \notin Whitespace
                        /\ \A j \in (i + 1)..Len(s) : s[j] \in Whitespace
         IN  SubSeq(s, first, last)

\* String.prototype.replace(/[...]/g, ''): s without the characters of cls
Strip(s, cls) == SelectSeq(s, LAMBDA c : c \notin cls)

\* the decimal number a sequence of digits reads as (0 for the empty one)
RECURSIVE DecimalValue(_)
DecimalValue(ds) ==
    IF ds = <<>> THEN 0
    ELSE 10 * DecimalValue(SubSeq(ds, 1, Len(ds) - 1)) + DigitValue[ds[Len(ds)]]

\* s begins with the string p
StartsWith(s, p) == Len(s) >= Len(p) /\ SubSeq(s, 1, Len(p)) = p

\* the length of the longest run of characters of cls that s has from index i on
RECURSIVE RunLength(_, _, _)
RunLength(s, i, cls) ==
    IF i > Len(s) \/ s[i] \notin cls THEN 0 ELSE 1 + RunLength(s, i + 1, cls)

\* ------------------------------------------------------------ validators

NameChars == Lower \cup Upper \cup Whitespace
             \cup {"á", "é", "í", "ó", "ú", "Á", "É", "Í", "Ó", "Ú", "ñ", "Ñ"}

validateFullName(value) ==
    IF Trim(value) = <<>> THEN "El nombre completo es requerido"
    ELSE IF Len(Trim(value)) < 2 THEN "El nombre debe tener al menos 2 caracteres"
    ELSE IF ~AllIn(value, NameChars) THEN "El nombre solo puede contener letras y espacios"
    \* split(' ') gives at least two parts exactly when there is a space
    ELSE IF ~SomeIn(Trim(value), {" "}) THEN "Debe ingresar nombre y apellido"
    ELSE NULL

\* /^[^\s@]+@[^\s@]+\.[^\s@]+$/
emailPattern(s) ==
    \E at \in 1..Len(s) :
        /\ s[at] = "@"
        /\ at > 1
        /\ \A i \in 1..Len(s) : i # at => s[i] \notin (Whitespace \cup {"@"})
        /\ \E dot \in (at + 2)..(Len(s) - 1) : s[dot] = "."

validateEmail(value) ==
    IF Trim(value) = <<>> THEN "El email es requerido"
    ELSE IF ~emailPattern(value) THEN "Ingrese un email válido"
    ELSE NULL

\* /^(\+593|593|0)?[2-9]\d{8}$/
ecuadorianPattern(s) ==
    \E prefix \in {<<>>, <<"+", "5", "9", "3">>, <<"5", "9", "3">>, <<"0">>} :
        /\ StartsWith(s, prefix)
        /\ Len(s) = Len(prefix) + 9
        /\ s[Len(prefix) + 1] \in (Digits \ {"0", "1"})
        /\ \A i \in (Len(prefix) + 2)..Len(s) : s[i] \in Digits

validatePhone(value) ==
    IF Trim(value) = <<>> THEN "El teléfono es requerido"
    ELSE LET cleanPhone == Strip(value, Whitespace \cup {"-", "(", ")"})
         IN  IF ~ecuadorianPattern(cleanPhone)
             THEN "Formato de teléfono ecuatoriano inválido"
             ELSE NULL

\* ------------------------------------------------------------ dates

\* Days from 1970-01-01 to the civil date (y, m, d) of the proleptic Gregorian
\* calendar; a day past the end of the month runs on into the next month, as the
\* MakeDay of Date.prototype.setFullYear does.
DaysFromCivil(y, m, d) ==
    LET yy  == IF m <= 2 THEN y - 1 ELSE y
        era == yy \div 400
        yoe == yy - era * 400
        mp  == IF m > 2 THEN m - 3 ELSE m + 9
        doy == (153 * mp + 2) \div 5 + d - 1
        doe == yoe * 365 + yoe \div 4 - yoe \div 100 + doy
    IN  era * 146097 + doe - 719468

IsLeapYear(y) == (y % 4 = 0 /\ y % 100 # 0) \/ y % 400 = 0

DaysInMonth(y, m) ==
    IF m = 2 THEN (IF IsLeapYear(y) THEN 29 ELSE 28)
    ELSE IF m \in {4, 6, 9, 11} THEN 30 ELSE 31

\* A Date: its time value in hours (of 24 to the day) since the epoch (UTC), or
\* NaN (an Invalid Date).
InvalidDate == [nan |-> TRUE, t |-> 0]

DateAt(hours) == [nan |-> FALSE, t |-> hours]

\* a > b and a < b of two Dates: a comparison with NaN is false
DateGT(a, b) == ~a.nan /\ ~b.nan /\ a.t > b.t

DateLT(a, b) == ~a.nan /\ ~b.nan /\ a.t < b.t

\* the date-only form YYYY-MM-DD of a date string
IsIsoDate(s) ==
    /\ Len(s) = 10
    /\ s[5] = "-" /\ s[8] = "-"
    /\ \A i \in {1, 2, 3, 4, 6, 7, 9, 10} : s[i] \in Digits
    /\ DecimalValue(SubSeq(s, 6, 7)) \in 1..12
    /\ DecimalValue(SubSeq(s, 9, 10)) \in
           1..DaysInMonth(DecimalValue(SubSeq(s, 1, 4)), DecimalValue(SubSeq(s, 6, 7)))

\* new Date(value) of a string: the date-only form is midnight UTC of that day;
\* a string that is no date is an Invalid Date. (The strings of this model are
\* date-only forms or hold no date at all.)
DateParse(s) ==
    IF IsIsoDate(s)
    THEN DateAt(24 * DaysFromCivil(DecimalValue(SubSeq(s, 1, 4)),
                                            DecimalValue(SubSeq(s, 6, 7)),
                                            DecimalValue(SubSeq(s, 9, 10))))
    ELSE InvalidDate

\* The clock is a local civil time [y, m, d, h] and the zone's offset tz in hours
\* (local = UTC + tz). new Date() is its instant.
DateNow(clock) ==
    DateAt(24 * DaysFromCivil(clock.y, clock.m, clock.d) + clock.h - clock.tz)

\* d = new Date(); d.setFullYear(year): the local month, day and time of the clock
\* in the given year
DateNowInYear(clock, year) ==
    DateAt(24 * DaysFromCivil(year, clock.m, clock.d) + clock.h - clock.tz)

MaxAgeYears == 100
MinAgeYears == 18

validateBirthDate(value, clock) ==
    IF value = <<>> THEN "La fecha de nacimiento es requerida"
    ELSE LET birthDate == DateParse(value)
             today     == DateNow(clock)
             minDate   == DateNowInYear(clock, clock.y - MaxAgeYears)
             maxDate   == DateNowInYear(clock, clock.y - MinAgeYears)
         IN  IF DateGT(birthDate, today) THEN "La fecha de nacimiento no puede ser futura"
             ELSE IF DateLT(birthDate, minDate) THEN "Fecha de nacimiento no válida"
             ELSE IF DateGT(birthDate, maxDate) THEN "Debe ser mayor de 18 años"
             ELSE NULL

\* ------------------------------------------------------------ cedula

coefficients == <<2, 1, 2, 1, 2, 1, 2, 1, 2>>

\* the loop of validateCedula: the sum over i of digits[i] * coefficients[i],
\* each product above 9 reduced by 9
RECURSIVE cedulaSumReducesNine(_, _)
cedulaSumReducesNine(digits, n) ==
    IF n = 0 THEN 0
    ELSE LET result == digits[n] * coefficients[n]
         IN  cedulaSumReducesNine(digits, n - 1)
             + (IF result >= 9 THEN result - 9 ELSE result)

RECURSIVE cedulaSum(_, _)
cedulaSum(digits, n) ==
    IF n = 0 THEN 0
    ELSE LET result == digits[n] * coefficients[n]
         IN  cedulaSum(digits, n - 1) + (IF result > 9 THEN result - 9 ELSE result)

verifierDigit(digits) ==
    LET sum == cedulaSum(digits, 9)
    IN  IF sum % 10 = 0 THEN 0 ELSE 10 - (sum % 10)

validateCedula(value) ==
    IF Trim(value) = <<>> THEN "La cédula es requerida"
    ELSE LET cedula == Trim(value)
         IN  IF ~(Len(cedula) = 10 /\ AllIn(cedula, Digits))
             THEN "La cédula debe tener exactamente 10 dígitos"
             ELSE LET digits   == [i \in 1..10 |-> DigitValue[cedula[i]]]
                      province == DecimalValue(SubSeq(cedula, 1, 2))
                  IN  IF province < 1 \/ province > 24
                      THEN "Código de provincia inválido"
                      ELSE IF verifierDigit(digits) # digits[10]
                      THEN "Número de cédula inválido"
                      ELSE NULL

\* ------------------------------------------------------------ passwords

SpecialChars == {"!", "@", "#", "$", "%", "^", "&", "*", "(", ")", "_", "+", "-",
                 "=", "[", "]", "{", "}", ";", "'", ":", "\"", "\\", "|", ",",
                 ".", "<", ">", "/", "?"}

MinPasswordLength == 8

validatePassword(value) ==
    IF value = <<>> THEN "La contraseña es requerida"
    ELSE IF Len(value) < MinPasswordLength
         THEN "La contraseña debe tener al menos 8 caracteres"
    ELSE IF ~SomeIn(value, Lower)
         THEN "La contraseña debe contener al menos una letra minúscula"
    ELSE IF ~SomeIn(value, Upper)
         THEN "La contraseña debe contener al menos una letra mayúscula"
    ELSE IF ~SomeIn(value, Digits)
         THEN "La contraseña debe contener al menos un número"
    ELSE IF ~SomeIn(value, SpecialChars)
         THEN "La contraseña debe contener al menos un símbolo especial"
    ELSE NULL

\* password is document.getElementById('password').value, read when the
\* validator runs
validateConfirmPassword(value, password) ==
    IF value = <<>> THEN "Debe confirmar la contraseña"
    ELSE IF value # password THEN "Las contraseñas no coinciden"
    ELSE NULL

\* ------------------------------------------------------------ website

Alnum == Lower \cup Upper \cup Digits

\* [-a-zA-Z0-9@:%._\+~#=]
UrlHostChars == Alnum \cup {"-", "@", ":", "%", ".", "_", "+", "~", "#", "="}

\* [a-zA-Z0-9()]
UrlTldChars == Alnum \cup {"(", ")"}

\* [-a-zA-Z0-9()@:%_\+.~#?&//=]
UrlPathChars == Alnum \cup {"-", "(", ")", "@", ":", "%", "_", "+", ".", "~", "#",
                            "?", "&", "/", "="}

\* \b between index i and index i + 1 of s
WordBoundary(s, i) ==
    (i >= 1 /\ s[i] \in WordChars) # (i < Len(s) /\ s[i + 1] \in WordChars)

\* /^https?:\/\/(www\.)?[-a-zA-Z0-9@:%._\+~#=]{1,256}\.[a-zA-Z0-9()]{1,6}\b([-a-zA-Z0-9()@:%_\+.~#?&//=]*)$/
\* host is the index the host part starts at, dot the index of the dot before the
\* top-level part, last the index the top-level part ends at
urlPattern(s) ==
    \E scheme \in {<<"h", "t", "t", "p", ":", "/", "/">>,
                   <<"h", "t", "t", "p", "s", ":", "/", "/">>} :
        /\ StartsWith(s, scheme)
        /\ \E host \in {Len(scheme) + 1} \cup
                       (IF StartsWith(SubSeq(s, Len(scheme) + 1, Len(s)),
                                      <<"w", "w", "w", ".">>)
                        THEN {Len(scheme) + 5} ELSE {}) :
             \E dot \in (host + 1)..Len(s) : \E last \in (dot + 1)..Len(s) :
                /\ dot - host <= 256
                /\ AllIn(SubSeq(s, host, dot - 1), UrlHostChars)
                /\ s[dot] = "."
                /\ last - dot <= 6
                /\ AllIn(SubSeq(s, dot + 1, last), UrlTldChars)
                /\ WordBoundary(s, last)
                /\ AllIn(SubSeq(s, last + 1, Len(s)), UrlPathChars)

validateWebsite(value) ==
    IF Trim(value) = <<>> THEN NULL
    ELSE IF ~urlPattern(value) THEN "Ingrese una URL válida (ej: https://ejemplo.com)"
    ELSE NULL

\* ------------------------------------------------------------ salary

RECURSIVE Pow10(_)
Pow10(n) == IF n = 0 THEN 1 ELSE 10 * Pow10(n - 1)

\* A Number: NaN, or (-1)^neg * mant * 10^exp10, or an infinity of that sign.
NaN == [nan |-> TRUE, inf |-> FALSE, neg |-> FALSE, mant |-> 0, exp10 |-> 0]

\* the exponent part of a decimal literal of s whose mantissa, of the digits mant
\* with fracLen of them after the point, ends before index e0: it counts when
\* digits follow the e and its sign
ExponentPart(s, neg, mant, fracLen, e0) ==
    LET hasE    == e0 <= Len(s) /\ s[e0] \in {"e", "E"}
        expSign == hasE /\ e0 + 1 <= Len(s) /\ s[e0 + 1] \in {"+", "-"}
        e1      == IF expSign THEN e0 + 2 ELSE e0 + 1
        expLen  == IF hasE THEN RunLength(s, e1, Digits) ELSE 0
    IN  [nan   |-> FALSE, inf |-> FALSE, neg |-> neg, mant |-> mant,
         exp10 |-> (IF expLen = 0 THEN 0
                    ELSE IF s[e0 + 1] = "-"
                         THEN 0 - DecimalValue(SubSeq(s, e1, e1 + expLen - 1))
                         ELSE DecimalValue(SubSeq(s, e1, e1 + expLen - 1)))
                   - fracLen]

\* the digits of a decimal literal of s from index i0 on, intLen of them before
\* the point
MantissaPart(s, neg, i0, intLen) ==
    LET hasPoint == i0 + intLen <= Len(s) /\ s[i0 + intLen] = "."
        fracLen  == IF hasPoint THEN RunLength(s, i0 + intLen + 1, Digits) ELSE 0
    IN  IF intLen = 0 /\ fracLen = 0 THEN NaN
        ELSE ExponentPart(s, neg,
                          DecimalValue(SubSeq(s, i0, i0 + intLen - 1)
                                       \o SubSeq(s, i0 + intLen + 1, i0 + intLen + fracLen)),
                          fracLen,
                          IF hasPoint THEN i0 + intLen + 1 + fracLen ELSE i0 + intLen)

\* the decimal literal of s from index i0 on, after its sign
UnsignedPart(s, neg, i0) ==
    IF StartsWith(SubSeq(s, i0, Len(s)), <<"I", "n", "f", "i", "n", "i", "t", "y">>)
    THEN [nan |-> FALSE, inf |-> TRUE, neg |-> neg, mant |-> 0, exp10 |-> 0]
    ELSE MantissaPart(s, neg, i0, RunLength(s, i0, Digits))

\* parseFloat(s): leading white space is skipped, then the longest prefix that
\* is a decimal literal is read: a sign, then Infinity or digits with an optional
\* fraction and an exponent part; NaN when there is none.
parseFloat(s) ==
    LET start == 1 + RunLength(s, 1, Whitespace)
    IN  IF start <= Len(s) /\ s[start] \in {"+", "-"}
        THEN UnsignedPart(s, s[start] = "-", start + 1)
        ELSE UnsignedPart(s, FALSE, start)

\* n < 0
NumberNegative(n) == ~n.nan /\ n.neg /\ (n.inf \/ n.mant > 0)

\* n > k for an integer k of at most 6 digits (the mantissa is below 2^31, so
\* a number with more than 3 decimal places is below k * 10^4)
NumberAbove(n, k) ==
    /\ ~n.nan
    /\ ~n.neg
    /\ \/ n.inf
       \/ /\ n.mant > 0
          /\ IF n.exp10 > 9 THEN TRUE
             ELSE IF n.exp10 >= 0 THEN n.mant > k \div Pow10(n.exp10)
             ELSE IF n.exp10 < 0 - 3 THEN FALSE
             ELSE n.mant > k * Pow10(0 - n.exp10)

MaxSalary == 1000000

validateSalary(value) ==
    IF value = <<>> THEN "El salario es requerido"
    ELSE LET salary == parseFloat(value)
         IN  IF salary.nan THEN "Ingrese un valor numérico válido"
             ELSE IF NumberNegative(salary) THEN "El salario no puede ser negativo"
             ELSE IF NumberAbove(salary, MaxSalary)
                  THEN "El salario parece ser demasiado alto"
             ELSE NULL

\* ------------------------------------------------------------ select, groups, file

validateSelect(value) ==
    IF value = <<>> THEN "Debe seleccionar una opción" ELSE NULL

\* checked is the set of the group's radio buttons that are checked
validateRadioGroup(checked) ==
    IF checked = {} THEN "Debe seleccionar una opción" ELSE NULL

\* checked is the set of the group's checkboxes that are checked
validateCheckboxGroup(checked, minRequired) ==
    IF Cardinality(checked) < minRequired
    THEN "Debe seleccionar al menos " \o ToString(minRequired) \o " opciones"
    ELSE NULL

\* 5 * 1024 * 1024
maxSize == 5242880

\* files is fileInput.files, a sequence of [type, size]
validateFile(fieldName, files) ==
    IF files = <<>> THEN "Debe seleccionar un archivo"
    ELSE LET file == files[1]
         IN  IF fieldName = "cv" /\ file.type # "application/pdf"
             THEN "El archivo debe ser un PDF"
             ELSE IF file.size > maxSize THEN "El archivo no debe superar los 5MB"
             ELSE NULL

MaxCommentLength == 500

validateTextarea(value) ==
    IF value # <<>> /\ Len(value) > MaxCommentLength
    THEN "El comentario no debe superar los 500 caracteres"
    ELSE NULL

validateCheckbox(checked) ==
    IF ~checked THEN "Debe aceptar los términos y condiciones" ELSE NULL

\* ------------------------------------------------------------ the form

VARIABLES
    validators,   \* this.validators: the keys of the Map, in insertion order
    errors,       \* this.errors: field name -> message
    isSubmitting, \* this.isSubmitting
    dom,          \* the controls: value, checked set, file list or checked flag
    defaults,     \* the values the document gives the controls (form.reset())
    errorText,    \* textContent of the element <name>-error
    groupClass,   \* the classes valid / invalid of the field's .form-group
    focused,      \* the control focusFirstError focused last ("" for none)
    submitBtn,    \* [disabled, loading] of button[type="submit"]
    display,      \* "form": the form is shown, "success": #successMessage is
    inFlight,     \* the simulateSubmission calls that have not settled
    outcome,      \* the stage of the last handleSubmit that passed its guard
    last,         \* what the call of the last step returned ("" when none did)
    clock         \* the local time

vars == <<validators, errors, isSubmitting, dom, defaults, errorText, groupClass,
          focused, submitBtn, display, inFlight, outcome, last, clock>>

\* setupValidators: the keys in the order of the this.validators.set calls
FieldNames == <<"fullName", "email", "phone", "birthDate", "cedula", "password",
                "confirmPassword", "website", "salary", "country", "gender",
                "interests", "cv", "comments", "terms">>

Range(seq) == {seq[i] : i \in 1..Len(seq)}

\* the minimum the 'interests' validator passes to validateCheckboxGroup
minRequired == 2

\* validator.validate(value) of the descriptor registered for fieldName: the
\* validators of the groups, the file and the checkbox read the document
RunValidator(fieldName, value, d, clk) ==
    CASE fieldName = "fullName"        -> validateFullName(value)
      [] fieldName = "email"           -> validateEmail(value)
      [] fieldName = "phone"           -> validatePhone(value)
      [] fieldName = "birthDate"       -> validateBirthDate(value, clk)
      [] fieldName = "cedula"          -> validateCedula(value)
      [] fieldName = "password"        -> validatePassword(value)
      [] fieldName = "confirmPassword" -> validateConfirmPassword(value, d.password)
      [] fieldName = "website"         -> validateWebsite(value)
      [] fieldName = "salary"          -> validateSalary(value)
      [] fieldName = "country"         -> validateSelect(value)
      [] fieldName = "gender"          -> validateRadioGroup(d.gender)
      [] fieldName = "interests"       -> validateCheckboxGroup(d.interests, minRequired)
      [] fieldName = "cv"              -> validateFile("cv", d.cv)
      [] fieldName = "comments"        -> validateTextarea(value)
      [] fieldName = "terms"           -> validateCheckbox(d.terms)

\* The type attribute of the control an event of that name comes from
ControlType(name) ==
    CASE name = "gender" -> "radio"
      [] name \in {"interests", "terms"} -> "checkbox"
      [] name = "cv" -> "file"
      [] name = "password" \/ name = "confirmPassword" -> "password"
      [] OTHER -> "text"

\* Map.prototype.set and Map.prototype.delete on a Map kept as a function
MapSet(map, key, val) ==
    [k \in DOMAIN map \cup {key} |-> IF k = key THEN val ELSE map[k]]

MapDelete(map, key) == [k \in DOMAIN map \ {key} |-> map[k]]

EmptyMap == [k \in {} |-> NULL]

\* st is [errors, errorText, groupClass]: what the methods below write
showError(st, fieldName, message) ==
    [errors     |-> MapSet(st.errors, fieldName, message),
     errorText  |-> IF fieldName \in DOMAIN st.errorText
                    THEN [st.errorText EXCEPT ![fieldName] = message]
                    ELSE st.errorText,
     groupClass |-> IF fieldName \in DOMAIN st.groupClass
                    THEN [st.groupClass EXCEPT
                             ![fieldName] = (@ \cup {"invalid"}) \ {"valid"}]
                    ELSE st.groupClass]

clearError(st, fieldName) ==
    [errors     |-> MapDelete(st.errors, fieldName),
     errorText  |-> IF fieldName \in DOMAIN st.errorText
                    THEN [st.errorText EXCEPT ![fieldName] = ""]
                    ELSE st.errorText,
     groupClass |-> IF fieldName \in DOMAIN st.groupClass
                    THEN [st.groupClass EXCEPT
                             ![fieldName] = (@ \ {"invalid"}) \cup {"valid"}]
                    ELSE st.groupClass]

clearAllErrors(st) ==
    [errors     |-> EmptyMap,
     errorText  |-> [f \in DOMAIN st.errorText |-> ""],
     groupClass |-> [f \in DOMAIN st.groupClass |-> {}]]

\* if (error): null and the empty string are falsy
Truthy(error) == error # NULL /\ error # ""

\* validateField(fieldName) on st with the registry reg, the document d and the
\* clock clk: [st, result]
validateFieldUnregisteredFails(st, reg, d, clk, fieldName) ==
    IF fieldName \notin Range(reg)
    THEN [st |-> showError(st, fieldName, "Campo requerido"), result |-> FALSE]
    ELSE CHOOSE out \in
             {IF Truthy(error)
              THEN [st |-> showError(s, fieldName, error), result |-> FALSE]
              ELSE [st |-> clearError(s, fieldName), result |-> TRUE] :
                  s \in {st},
                  error \in {RunValidator(fieldName, d[fieldName], d, clk)}} : TRUE

validateField(st, reg, d, clk, fieldName) ==
    IF fieldName \notin Range(reg) THEN [st |-> st, result |-> TRUE]
    ELSE CHOOSE out \in
             {IF Truthy(error)
              THEN [st |-> showError(s, fieldName, error), result |-> FALSE]
              ELSE [st |-> clearError(s, fieldName), result |-> TRUE] :
                  s \in {st},
                  error \in {RunValidator(fieldName, d[fieldName], d, clk)}} : TRUE

\* validateForm(): the loop over this.validators.keys() from the i-th key on,
\* isValid being the value so far: [st, result]
RECURSIVE validateFormShortCircuit(_, _, _, _, _, _)
validateFormShortCircuit(st, reg, d, clk, i, isValid) ==
    IF i > Len(reg) THEN [st |-> st, result |-> isValid]
    ELSE CHOOSE out \in
             {IF r.result
              THEN validateFormShortCircuit(r.st, reg, d, clk, i + 1, isValid)
              ELSE [st |-> r.st, result |-> FALSE] :
                  r \in {validateField(st, reg, d, clk, reg[i])}} : TRUE

RECURSIVE validateFormFrom(_, _, _, _, _, _)
validateFormFrom(st, reg, d, clk, i, isValid) ==
    IF i > Len(reg) THEN [st |-> st, result |-> isValid]
    ELSE CHOOSE out \in
             {validateFormFrom(r.st, reg, d, clk, i + 1, isValid /\ r.result) :
                  r \in {validateField(st, reg, d, clk, reg[i])}} : TRUE

validateForm(st, reg, d, clk) == validateFormFrom(st, reg, d, clk, 1, TRUE)

\* focusFirstError: the first control, in document order, of a group with the
\* class invalid, or what was focused when there is none. The controls stand in
\* the document in the order of their registration.
focusFirstError(classes, reg, was) ==
    IF \E i \in 1..Len(reg) : "invalid" \in classes[reg[i]]
    THEN reg[CHOOSE i \in 1..Len(reg) :
                /\ "invalid" \in classes[reg[i]]
                /\ \A j \in 1..(i - 1) : "invalid" \notin classes[reg[j]]]
    ELSE was

UI == [errors |-> errors, errorText |-> errorText, groupClass |-> groupClass]

\* getErrors() and isValid()
getErrors == errors

isValid == DOMAIN errors = {}

\* ------------------------------------------------------------ inputs

NameFull == <<"A", "n", "a", " ", "P", "a", "z">>
NameOnly == <<"A", "n", "a">>
EmailGood == <<"a", "@", "b", ".", "c", "o">>
EmailBad == <<"a", "@", "b">>
PhoneGood == <<"0", "9", "9", "1", "2", "3", "4", "5", "6", "7">>
PhoneBad == <<"1", "2", "3">>
BirthAdult == <<"1", "9", "9", "0", "-", "0", "5", "-", "2", "0">>
BirthEighteenTomorrow == <<"2", "0", "0", "8", "-", "1", "1", "-", "0", "2">>
BirthGarbage == <<"a", "y", "e", "r">>
CedulaGood == <<"1", "7", "1", "0", "0", "3", "4", "0", "6", "5">>
CedulaBadVerifier == <<"1", "7", "1", "2", "3", "4", "5", "6", "7", "8">>
PasswordOne == <<"A", "b", "c", "d", "e", "f", "1", "!">>
PasswordTwo == <<"A", "b", "c", "d", "e", "f", "2", "!">>
PasswordWeak == <<"a", "b", "c">>
WebsiteGood == <<"h", "t", "t", "p", "s", ":", "/", "/", "e", ".", "c", "o">>
WebsiteBad == <<"f", "t", "p", ":", "/", "/", "e", ".", "c", "o">>
SalaryGood == <<"5", "0", "0", "0", "0">>
SalaryNegative == <<"-", "1">>
CountryEC == <<"E", "C">>
CommentLong == [i \in 1..(MaxCommentLength + 1) |-> "x"]
FilePdf == <<[type |-> "application/pdf", size |-> 1024]>>
FilePng == <<[type |-> "image/png", size |-> 1024]>>
FilePdfBig == <<[type |-> "application/pdf", size |-> maxSize + 1]>>

GenderOptions == {"f", "m"}
InterestOptions == {"a", "b", "c"}

\* The document as the page gives it: every control empty
Blank ==
    [fullName |-> <<>>, email |-> <<>>, phone |-> <<>>, birthDate |-> <<>>,
     cedula |-> <<>>, password |-> <<>>, confirmPassword |-> <<>>,
     website |-> <<>>, salary |-> <<>>, country |-> <<>>, gender |-> {},
     interests |-> {}, cv |-> <<>>, comments |-> <<>>, terms |-> FALSE]

\* A document whose controls carry valid values; a file control carries none
Prefilled ==
    [fullName |-> NameFull, email |-> EmailGood, phone |-> PhoneGood,
     birthDate |-> BirthAdult, cedula |-> CedulaGood, password |-> PasswordOne,
     confirmPassword |-> PasswordOne, website |-> <<>>, salary |-> SalaryGood,
     country |-> CountryEC, gender |-> {"f"}, interests |-> {"a", "b"},
     cv |-> <<>>, comments |-> <<>>, terms |-> TRUE]

\* The names of the controls whose events the model delivers: registered ones,
\* a control that is not registered, a control with no name
InputNames == {"password", "confirmPassword", "cv", "newsletter", ""}

ChangeNames == {"terms", "password", "newsletter"}

CallNames == {"confirmPassword", "newsletter"}

\* The values an input event may leave in the control of that name
InputValues(name, d) ==
    CASE name = "password"        -> {PasswordOne, PasswordTwo, PasswordWeak}
      [] name = "confirmPassword" -> {<<>>, PasswordOne, PasswordTwo}
      [] name = "cv"              -> {<<>>, FilePdf, FilePng}
      [] OTHER                    -> {<<>>}

\* the local times the validators may run at
Clocks == {[y |-> 2026, m |-> 11, d |-> 1, h |-> 10, tz |-> -5]}

\* how many transport calls may be pending at one time
MaxInFlight == 2

\* ------------------------------------------------------------ operations

ButtonIdle == [disabled |-> FALSE, loading |-> FALSE]
ButtonBusy == [disabled |-> TRUE, loading |-> TRUE]

\* the state the constructor leaves, for a document doc
Constructed(doc, now) ==
    /\ validators = FieldNames
    /\ errors = EmptyMap
    /\ isSubmitting = FALSE
    /\ defaults = doc
    /\ dom = doc
    /\ errorText = [f \in Range(FieldNames) |-> ""]
    /\ groupClass = [f \in Range(FieldNames) |-> {}]
    /\ focused = ""
    /\ submitBtn = ButtonIdle
    /\ display = "form"
    /\ inFlight = 0
    /\ outcome = "none"
    /\ last = ""
    /\ clock = now

Init == \E doc \in {Blank, Prefilled} : \E now \in Clocks : Constructed(doc, now)

SetUI(st) ==
    /\ errors' = st.errors
    /\ errorText' = st.errorText
    /\ groupClass' = st.groupClass

Returned(b) == IF b THEN "true" ELSE "false"

InputEventCascade(name, value) ==
    /\ display = "form"
    /\ dom' = IF name \in DOMAIN dom THEN [dom EXCEPT ![name] = value] ELSE dom
    /\ IF name # "" /\ name \in Range(validators)
       THEN SetUI(IF name = "password"
                  THEN validateField(validateField(UI, validators, dom', clock, name).st,
                                     validators, dom', clock, "confirmPassword").st
                  ELSE validateField(UI, validators, dom', clock, name).st)
       ELSE UNCHANGED <<errors, errorText, groupClass>>
    /\ last' = ""
    /\ UNCHANGED <<validators, isSubmitting, defaults, focused, submitBtn, display,
                   inFlight, outcome, clock>>

\* the 'input' listener of bindEvents, after the control took the value
InputEvent(name, value) ==
    /\ display = "form"
    /\ dom' = IF name \in DOMAIN dom THEN [dom EXCEPT ![name] = value] ELSE dom
    /\ IF name # "" /\ name \in Range(validators)
       THEN SetUI(validateField(UI, validators, dom', clock, name).st)
       ELSE UNCHANGED <<errors, errorText, groupClass>>
    /\ last' = ""
    /\ UNCHANGED <<validators, isSubmitting, defaults, focused, submitBtn, display,
                   inFlight, outcome, clock>>

\* the 'change' listener of bindEvents
ChangeEvent(name) ==
    /\ display = "form"
    /\ IF ControlType(name) \in {"radio", "checkbox"} /\ name \in Range(validators)
       THEN SetUI(validateField(UI, validators, dom, clock, name).st)
       ELSE UNCHANGED <<errors, errorText, groupClass>>
    /\ last' = ""
    /\ UNCHANGED <<validators, isSubmitting, dom, defaults, focused, submitBtn,
                   display, inFlight, outcome, clock>>

handleSubmitSkipsBlock ==
    \E r \in {validateForm(UI, validators, dom, clock)} :
        /\ SetUI(r.st)
        /\ focused' = focused
        /\ isSubmitting' = TRUE
        /\ submitBtn' = ButtonBusy
        /\ inFlight' = inFlight + 1
        /\ outcome' = "awaiting"
        /\ last' = ""
        /\ UNCHANGED <<validators, dom, defaults, display, clock>>

\* handleSubmit() past its guard, up to its await or to its return after
\* focusFirstError (the finally block runs on that return)
handleSubmitAccepted ==
    \E r \in {validateForm(UI, validators, dom, clock)} :
        /\ SetUI(r.st)
        /\ IF ~r.result
           THEN /\ focused' = focusFirstError(r.st.groupClass, validators, focused)
                /\ isSubmitting' = FALSE
                /\ submitBtn' = ButtonIdle
                /\ inFlight' = inFlight
                /\ outcome' = "blocked"
           ELSE /\ focused' = focused
                /\ isSubmitting' = TRUE
                /\ submitBtn' = ButtonBusy
                /\ inFlight' = inFlight + 1
                /\ outcome' = "awaiting"
        /\ last' = ""
        /\ UNCHANGED <<validators, dom, defaults, display, clock>>

handleSubmitUnguarded == handleSubmitAccepted

\* handleSubmit(): it returns at once while a submission is under way
handleSubmit ==
    IF isSubmitting
    THEN /\ last' = "ignored"
         /\ UNCHANGED <<validators, errors, isSubmitting, dom, defaults, errorText,
                        groupClass, focused, submitBtn, display, inFlight, outcome,
                        clock>>
    ELSE handleSubmitAccepted

\* the 'submit' listener of bindEvents
SubmitEvent ==
    /\ display = "form"
    /\ inFlight < MaxInFlight
    /\ handleSubmit

\* simulateSubmission() resolves: handleSubmit goes on to showSuccessMessage and
\* to its finally block
TransportResolves ==
    /\ inFlight > 0
    /\ inFlight' = inFlight - 1
    /\ display' = "success"
    /\ isSubmitting' = FALSE
    /\ submitBtn' = ButtonIdle
    /\ outcome' = "succeeded"
    /\ last' = ""
    /\ UNCHANGED <<validators, errors, dom, defaults, errorText, groupClass,
                   focused, clock>>

TransportRejectsKeepsGuard ==
    /\ inFlight > 0
    /\ inFlight' = inFlight - 1
    /\ outcome' = "failed"
    /\ last' = ""
    /\ UNCHANGED <<validators, errors, isSubmitting, dom, defaults, errorText,
                   groupClass, focused, submitBtn, display, clock>>

\* the awaited promise rejects: the catch block (console.error, alert), then the
\* finally block
TransportRejects ==
    /\ inFlight > 0
    /\ inFlight' = inFlight - 1
    /\ isSubmitting' = FALSE
    /\ submitBtn' = ButtonIdle
    /\ outcome' = "failed"
    /\ last' = ""
    /\ UNCHANGED <<validators, errors, dom, defaults, errorText, groupClass,
                   focused, display, clock>>

\* form.reset(): the 'reset' listener of bindEvents runs clearAllErrors, then
\* the controls take the document's values again
FormReset ==
    /\ SetUI(clearAllErrors(UI))
    /\ dom' = defaults

\* the form's reset button
ResetEvent ==
    /\ display = "form"
    /\ FormReset
    /\ last' = ""
    /\ UNCHANGED <<validators, isSubmitting, defaults, focused, submitBtn, display,
                   inFlight, outcome, clock>>

\* reset()
reset ==
    /\ FormReset
    /\ display' = "form"
    /\ last' = ""
    /\ UNCHANGED <<validators, isSubmitting, defaults, focused, submitBtn,
                   inFlight, outcome, clock>>

\* a call of validateField(name) (window.formValidator)
ValidateFieldCall(name) ==
    \E r \in {validateField(UI, validators, dom, clock, name)} :
        /\ SetUI(r.st)
        /\ last' = Returned(r.result)
        /\ UNCHANGED <<validators, isSubmitting, dom, defaults, focused, submitBtn,
                       display, inFlight, outcome, clock>>

\* a call of validateForm() (window.validateForm)
ValidateFormCall ==
    \E r \in {validateForm(UI, validators, dom, clock)} :
        /\ SetUI(r.st)
        /\ last' = Returned(r.result)
        /\ UNCHANGED <<validators, isSubmitting, dom, defaults, focused, submitBtn,
                       display, inFlight, outcome, clock>>

Next ==
    \/ \E name \in InputNames : \E value \in InputValues(name, dom) :
           InputEvent(name, value)
    \/ \E name \in ChangeNames : ChangeEvent(name)
    \/ SubmitEvent
    \/ TransportResolves
    \/ TransportRejects
    \/ ResetEvent
    \/ reset
    \/ \E name \in CallNames : ValidateFieldCall(name)
    \/ ValidateFormCall

Spec == Init /\ [][Next]_vars

\* the transport call settles
FairSpec == Spec /\ WF_vars(TransportResolves \/ TransportRejects)

\* ------------------------------------------------------------ the validators alone

Spaces(n) == [i \in 1..n |-> " "]

\* Cedulas: a province code, seven digits, a last digit, with or without white
\* space around them; and strings that are no ten digits
CedulaValues ==
    {Spaces(pad) \o prov \o mid \o <<v>> \o Spaces(pad) :
        pad \in {0, 1},
        prov \in {<<"0", "0">>, <<"0", "1">>, <<"1", "7">>, <<"2", "4">>, <<"2", "5">>},
        mid \in {<<"1", "0", "0", "3", "4", "0", "6">>, <<"9", "9", "9", "9", "9", "9", "9">>},
        v \in Digits}
    \cup {<<>>, <<" ">>, <<"1", "7", "1", "0", "0", "3", "4", "0", "6">>,
          <<"1", "7", "1", "0", "0", "3", "4", "0", "6", "5", "0">>,
          <<"1", "7", "1", "0", "0", "3", "4", "0", "6", "x">>,
          <<"1", "7", "1", "0", " ", "3", "4", "0", "6", "5">>}

BirthDateValues ==
    {<<>>, BirthAdult, BirthEighteenTomorrow, BirthGarbage,
     <<"2", "0", "0", "8", "-", "1", "1", "-", "0", "1">>,
     <<"2", "0", "3", "0", "-", "0", "1", "-", "0", "1">>,
     <<"1", "9", "0", "0", "-", "0", "1", "-", "0", "1">>,
     <<"2", "0", "0", "8", "-", "1", "3", "-", "0", "1">>}

SalaryValues ==
    {<<>>, SalaryGood, SalaryNegative, <<"a", "b", "c">>,
     <<"1", "0", "0", "0", "0", "0", "1">>, <<"1", "0", "0", "0", "0", "0", "0">>,
     <<"1", "0", "0", "0", "0", "0", "0", ".", "5">>, <<"1", "2", "a", "b", "c">>,
     <<"1", "e", "7">>, <<" ", "4", "2">>, <<"-", "0">>, <<".", "5">>, <<"-">>,
     <<"I", "n", "f", "i", "n", "i", "t", "y">>}

\* The values the control of that name may hold when its validator runs
ControlValues(name) ==
    CASE name = "fullName"  -> {<<>>, <<" ">>, NameFull, NameOnly, <<"A">>,
                                <<"A", "n", "1", " ", "P">>, <<"J", "o", "s", "é", " ", "P">>}
      [] name = "email"     -> {<<>>, EmailGood, EmailBad, <<"a", " ", "@", "b", ".", "c">>,
                                <<"a", "@", "b", "@", "c", ".", "d">>, <<"a", "@", ".", "c">>}
      [] name = "phone"     -> {<<>>, PhoneGood, PhoneBad,
                                <<"+", "5", "9", "3", " ", "9", "9", "-", "1", "2", "3",
                                  "4", "5", "6", "7">>,
                                <<"(", "0", "2", ")", "2", "3", "4", "5", "6", "7", "8">>}
      [] name = "birthDate" -> BirthDateValues
      [] name = "cedula"    -> CedulaValues
      [] name = "password"  -> {<<>>, PasswordOne, PasswordTwo, PasswordWeak,
                                <<"a", "b", "c", "d", "e", "f", "1", "!">>,
                                <<"A", "B", "C", "D", "E", "F", "1", "!">>,
                                <<"A", "b", "c", "d", "e", "f", "g", "!">>,
                                <<"A", "b", "c", "d", "e", "f", "g", "1">>}
      [] name = "confirmPassword" -> {<<>>, PasswordOne, PasswordTwo}
      [] name = "website"   -> {<<>>, WebsiteGood, WebsiteBad,
                                <<"h", "t", "t", "p", ":", "/", "/", "w", "w", "w", ".",
                                  "e", ".", "c", "o", "/", "x", "?", "a", "=", "1">>,
                                <<"h", "t", "t", "p", ":", "/", "/", "e">>,
                                WebsiteGood \o <<" ">>}
      [] name = "salary"    -> SalaryValues
      [] name = "country"   -> {<<>>, CountryEC}
      [] name = "gender"    -> {{}} \cup {{o} : o \in GenderOptions}
      [] name = "interests" -> SUBSET InterestOptions
      [] name = "cv"        -> {<<>>, FilePdf, FilePng, FilePdfBig}
      [] name = "comments"  -> {<<>>, <<"o", "k">>, CommentLong,
                                [i \in 1..MaxCommentLength |-> "x"]}
      [] name = "terms"     -> BOOLEAN

\* the local times a birth date is validated at
BirthDateClocks ==
    Clocks \cup {[y |-> 2026, m |-> 11, d |-> 1, h |-> 21, tz |-> -5],
                 [y |-> 2026, m |-> 11, d |-> 1, h |-> 2, tz |-> 5]}

\* a document with one control holding any of its values
InitValidators ==
    \E doc \in {Blank, Prefilled} : \E name \in Range(FieldNames) :
        \E value \in ControlValues(name) :
            \E now \in (IF name = "birthDate" THEN BirthDateClocks ELSE Clocks) :
                Constructed([doc EXCEPT ![name] = value], now)

\* the first call on that document, of validateField
FirstValidateField(name) == last = "" /\ ValidateFieldCall(name)

\* the first call on that document, of validateForm
FirstValidateForm == last = "" /\ ValidateFormCall

NextValidators ==
    \/ \E name \in Range(FieldNames) : FirstValidateField(name)
    \/ FirstValidateForm

SpecValidators == InitValidators /\ [][NextValidators]_vars

\* ------------------------------------------------------------ properties

\* the validator of the registered field f returns a message on the document
FieldFails(f) == Truthy(RunValidator(f, dom[f], dom, clock))

FailingFields == {f \in Range(validators) : FieldFails(f)}

\* the field has been validated since the errors were last cleared
Validated(f) == groupClass[f] # {}

\* C1: a handleSubmit invoked while an earlier one awaits the transport returns
\* without calling the transport: at most one transport call is in flight at
\* any time, and the invocation that was ignored left that one call in flight.
C1_AtMostOneInFlight ==
    /\ inFlight <= 1
    /\ last = "ignored" => (inFlight = 1 /\ isSubmitting)

C1_Witness == last = "ignored" /\ inFlight = 1 /\ outcome = "awaiting"

\* C2: a submit attempt during whose whole-form validation some registered
\* field's validator returns an error ends blocked: it does not call the
\* transport and it does not show the success view.
\* (An accepted submit event leaves the controls alone and ends blocked or
\* awaiting; naming that first spares evaluating SubmitEvent on other steps.)
C2_FailingFieldBlocksSubmission ==
    [][(/\ ~isSubmitting
        /\ dom' = dom
        /\ outcome' \in {"blocked", "awaiting"}
        /\ SubmitEvent
        /\ FailingFields # {})
          => /\ inFlight' = inFlight
             /\ display' = display
             /\ ~isSubmitting'
             /\ outcome' = "blocked"]_vars

C2_Witness ==
    /\ outcome = "blocked"
    /\ FailingFields # {}
    /\ DOMAIN errors = FailingFields
    /\ inFlight = 0
    /\ display = "form"

\* C3: validateForm() returns the conjunction of validateField(f) over every
\* registered field and validates every one of them, also after one failed:
\* afterwards the keys of the error map are exactly the registered fields whose
\* validator returned a message.
\* (A call records what it returned; naming that first spares evaluating
\* ValidateFormCall on other steps.)
C3_ValidateFormIsConjunction ==
    [][(last' \in {"true", "false"} /\ ValidateFormCall) =>
          /\ last' = Returned(\A i \in 1..Len(validators) :
                        validateField(UI, validators, dom, clock, validators[i]).result)
          /\ DOMAIN errors' = FailingFields]_vars

C3_Witness ==
    /\ last = "false"
    /\ Cardinality(DOMAIN errors) >= 2
    /\ DOMAIN errors = FailingFields
    /\ \A f \in Range(validators) : Validated(f)

\* C4: in the state right after a submit attempt reaches success the error map
\* is empty, whatever input events came while the transport call was awaited.
C4_ErrorsClearedOnSuccess ==
    [][TransportResolves => DOMAIN errors' = {}]_vars

\* C5: after reset() or a form reset event, also one that comes while a
\* submission awaits the transport, the error map is empty, isSubmitting is
\* false and the form, not the success view, is and stays shown.
C5_ResetReturnsToIdle ==
    [][(reset \/ ResetEvent)
          => /\ DOMAIN errors' = {}
             /\ ~isSubmitting'
             /\ display' = "form"]_vars

\* C6: every submit attempt that passes the guard ends, once the transport call
\* settles, with isSubmitting false and the submit button enabled again, be it
\* blocked, succeeded or failed; after a failure a new attempt is accepted.
C6_GuardAlwaysReleased ==
    /\ [](outcome \in {"blocked", "succeeded", "failed"}
             => (~isSubmitting /\ ~submitBtn.disabled /\ ~submitBtn.loading))
    /\ (outcome = "awaiting") ~> (outcome \in {"succeeded", "failed"})
    /\ [][(outcome = "failed" /\ SubmitEvent) => outcome' \in {"blocked", "awaiting"}]_vars

C6_Witness ==
    /\ outcome = "failed"
    /\ ~isSubmitting
    /\ ~submitBtn.disabled
    /\ display = "form"
    /\ inFlight = 0

\* the entry of the error map for the field f is the same in both states
SameEntry(f) ==
    /\ (f \in DOMAIN errors') = (f \in DOMAIN errors)
    /\ f \in DOMAIN errors => errors'[f] = errors[f]

\* C7: an input event on the password field leaves the error-map entry of
\* confirmPassword as it was, present or absent; an input event on
\* confirmPassword sets it by comparing with the password value of that moment;
\* and the entry changes only in a step that validates confirmPassword (its
\* input event, a validateField call on it, a whole-form validation) or that
\* clears every entry (a reset).
C7_NoCascadeToConfirm ==
    [][/\ (\E v \in InputValues("password", dom) : InputEvent("password", v))
             => SameEntry("confirmPassword")
       /\ ~SameEntry("confirmPassword")
             => \/ \E v \in InputValues("confirmPassword", dom) :
                      InputEvent("confirmPassword", v)
                \/ ValidateFieldCall("confirmPassword")
                \/ ValidateFormCall
                \/ SubmitEvent
                \/ reset
                \/ ResetEvent
       /\ (\E v \in InputValues("confirmPassword", dom) : InputEvent("confirmPassword", v))
             => ("confirmPassword" \in DOMAIN errors')
                   = (dom'.confirmPassword = <<>>
                      \/ dom'.confirmPassword # dom'.password)]_vars

\* confirmPassword passed its validation and no longer equals the password
C7_Witness ==
    /\ "confirmPassword" \notin DOMAIN errors
    /\ "valid" \in groupClass["confirmPassword"]
    /\ "valid" \in groupClass["password"]
    /\ dom.confirmPassword # dom.password

\* C8: every key of the error map is a registered field, the registered fields
\* are those of the construction, and validateField on a name that is not
\* registered returns true and writes nothing.
C8_ErrorKeysRegistered ==
    /\ [](DOMAIN errors \subseteq Range(validators) /\ validators = FieldNames)
    /\ [][ValidateFieldCall("newsletter")
             => (last' = "true" /\ errors' = errors /\ errorText' = errorText)]_vars

\* validateField("newsletter") returned true with an error in the map
C8_Witness ==
    /\ last = "true"
    /\ "confirmPassword" \in DOMAIN errors
    /\ DOMAIN errors \subseteq Range(validators)

\* a birth date that is no date, a salary with a character no number has
Malformed(f, value) ==
    /\ value # <<>>
    /\ \/ f = "birthDate" /\ ~IsIsoDate(value)
       \/ f = "salary" /\ ~AllIn(value, Digits \cup Whitespace \cup {"+", "-", ".", "e", "E"})

\* C9: a validator given malformed input, such as a birth date that is no date
\* or a salary that is no number, returns an error message, not 'valid'.
C9_MalformedInputReported ==
    \A f \in {"birthDate", "salary"} :
        (Validated(f) /\ Malformed(f, dom[f])) => f \in DOMAIN errors

\* the product of the i-th digit (from 1) and its coefficient 2, 1, 2, ...,
\* less 9 when above 9
ClaimProduct(t, i) ==
    LET p == DigitValue[t[i]] * (IF i % 2 = 1 THEN 2 ELSE 1)
    IN  IF p > 9 THEN p - 9 ELSE p

ClaimVerifier(t) ==
    LET sum == ClaimProduct(t, 1) + ClaimProduct(t, 2) + ClaimProduct(t, 3)
               + ClaimProduct(t, 4) + ClaimProduct(t, 5) + ClaimProduct(t, 6)
               + ClaimProduct(t, 7) + ClaimProduct(t, 8) + ClaimProduct(t, 9)
    IN  IF sum % 10 = 0 THEN 0 ELSE 10 - (sum % 10)

ClaimTenDigits(t) == Len(t) = 10 /\ AllIn(t, Digits)

ClaimProvince(t) == 10 * DigitValue[t[1]] + DigitValue[t[2]]

\* C10: validateCedula accepts a value iff, trimmed, it is ten digits, its first
\* two digits are a number from 1 to 24 and its tenth digit is the verifier of
\* the first nine; a value that is not empty is rejected with the message of
\* the first of length, province and checksum that fails.
C10_CedulaAcceptance ==
    Validated("cedula") =>
        LET t == Trim(dom.cedula)
        IN  /\ ("cedula" \notin DOMAIN errors)
                 = (/\ ClaimTenDigits(t)
                    /\ ClaimProvince(t) \in 1..24
                    /\ DigitValue[t[10]] = ClaimVerifier(t))
            /\ (t # <<>> /\ ~ClaimTenDigits(t))
                 => errors["cedula"] = "La cédula debe tener exactamente 10 dígitos"
            /\ (ClaimTenDigits(t) /\ ClaimProvince(t) \notin 1..24)
                 => errors["cedula"] = "Código de provincia inválido"
            /\ (ClaimTenDigits(t) /\ ClaimProvince(t) \in 1..24
                  /\ DigitValue[t[10]] # ClaimVerifier(t))
                 => errors["cedula"] = "Número de cédula inválido"

\* a cedula with white space around it and a 9 among its digits was accepted
C10_Witness ==
    /\ Validated("cedula")
    /\ "cedula" \notin DOMAIN errors
    /\ dom.cedula # Trim(dom.cedula)
    /\ SomeIn(dom.cedula, {"9"})

\* the day number of the calendar date y-m-d, and of a date string YYYY-MM-DD
ClaimDay(y, m, d) == DaysFromCivil(y, m, d)

ClaimBirthDay(s) ==
    ClaimDay(DecimalValue(SubSeq(s, 1, 4)), DecimalValue(SubSeq(s, 6, 7)),
             DecimalValue(SubSeq(s, 9, 10)))

\* C11: at any local time and zone offset of the validation, a birth date
\* exactly 18 years before today's calendar date is accepted, the date one day
\* later is rejected as too young, a date more than 100 years before today is
\* rejected as not valid, and a date after today is rejected as future.
C11_BirthDateBoundaries ==
    (Validated("birthDate") /\ IsIsoDate(dom.birthDate)) =>
        LET born     == ClaimBirthDay(dom.birthDate)
            today    == ClaimDay(clock.y, clock.m, clock.d)
            eighteen == ClaimDay(clock.y - 18, clock.m, clock.d)
            hundred  == ClaimDay(clock.y - 100, clock.m, clock.d)
        IN  /\ born = eighteen => "birthDate" \notin DOMAIN errors
            /\ born = eighteen + 1
                  => /\ "birthDate" \in DOMAIN errors
                     /\ errors["birthDate"] = "Debe ser mayor de 18 años"
            /\ born < hundred
                  => /\ "birthDate" \in DOMAIN errors
                     /\ errors["birthDate"] = "Fecha de nacimiento no válida"
            /\ born > today
                  => /\ "birthDate" \in DOMAIN errors
                     /\ errors["birthDate"] = "La fecha de nacimiento no puede ser futura"
====
